---- MODULE Spec2Model ----
(***************************************************************************)
(* Model of the two daemons of the repository:                             *)
(*   atlas_cluster_scaler.py   - toggles the cluster instance size         *)
(*   atlas_endpoint_cycler.py  - deletes and recreates private endpoints   *)
(* together with the remote services they talk to (the Atlas cluster API,  *)
(* the Atlas private-endpoint API and the AWS EC2 API), which are modelled *)
(* as nondeterministic environments.  One behaviour runs one of the two    *)
(* programs (variable prog); the other program's variables stay put.       *)
(***************************************************************************)
EXTENDS Integers, Sequences, FiniteSets

VARIABLES
    prog,            \* which script the process runs
    WAIT_FILE_PATH,  \* TRUE when the environment sets WAIT_FILE_PATH
    fileExists,      \* os.path.exists(WAIT_FILE_PATH)
    rReflects,       \* TRUE when GET reports an accepted PATCH's sizes at once
    \* ---- atlas_cluster_scaler.py
    SCALE_FROM, SCALE_TO,
    scPc,            \* position of main()
    scExc,           \* exception in flight in main()'s try block
    current_size, new_size,
    updConfig,       \* current_config of update_cluster_size, after its edit
    patches,         \* PATCH requests sent since new_size was computed
    polls,           \* fetches made by the running wait_for_cluster_update
    lastPoll,        \* outcome of the latest fetch of wait_for_cluster_update
    scLastOp,        \* latest of "mutate" (PATCH), "fetch", "sleep" in main()
    prevOk,          \* new_size of the latest iteration that ran to its end
    orphanPatch,     \* a PATCH was accepted and its wait failed since prevOk
    \* ---- Atlas cluster (remote)
    rRegions,        \* regionConfigs: electableSpecs.instanceSize or NoSpec
    rState,          \* stateName
    rPending,        \* <<payload>> of an accepted PATCH the cluster has not started on
    rApplying,       \* <<payload>> the cluster is applying
    \* ---- atlas_endpoint_cycler.py
    cyPc,            \* position of cycle_private_endpoints()
    cyExc,           \* "none", or the position at which an exception was raised
    cyIdx,           \* index into VPC_IDS of the running for loop
    vpce_id,         \* local vpce_id (NoId for None)
    cyDeletes,       \* Atlas DELETEs sent for vpce_id since it was looked up
    cyPosts,         \* Atlas POSTs sent for vpce_id since it was created
    cyPolls,         \* get_endpoint calls made by the running wait loop
    cyLast,          \* outcome of the latest get_endpoint of the wait loop
    cycles,          \* completed passes of the while True loop
    vpcStage,        \* per VPC index, how far this pass has brought it
    cyLastOp,        \* latest of "mutate" (DELETE/POST), "fetch", "sleep"
    created,         \* arguments of this pass's create_vpc_endpoint calls
    \* ---- AWS EC2 and Atlas private endpoints (remote)
    awsEps,          \* per VPC index, the VpcEndpoints describe returns
    atlasEp,         \* per endpoint id, its state in Atlas
    nextId           \* next VpcEndpointId AWS hands out

scalerVars == <<SCALE_FROM, SCALE_TO, scPc, scExc, current_size, new_size,
                updConfig, patches, polls, lastPoll, scLastOp, prevOk,
                orphanPatch>>
clusterVars == <<rRegions, rState, rPending, rApplying>>
envVars == <<prog, WAIT_FILE_PATH, fileExists, rReflects>>
cyclerVars == <<cyPc, cyExc, cyIdx, vpce_id, cyDeletes, cyPosts, cyPolls,
                cyLast, cycles, vpcStage, cyLastOp, created>>
endpointVars == <<awsEps, atlasEp, nextId>>
vars == <<envVars, scalerVars, clusterVars, cyclerVars, endpointVars>>

\* ------------------------------------------------------------------ bounds
MaxRegions == 2
MaxPolls == 3
NumVpcs == 2
MaxCycles == 1

\* ------------------------------------------------------------------ values
Sizes == {"M10", "M20", "M30"}
NoSpec == "NoSpec"
None == "None"
NoPatch == <<>>
NoId == 0
VPC_IDS == [i \in 1..NumVpcs |-> i]
SUBNET_IDS == [i \in 1..NumVpcs |-> 10 + i]
SECURITY_GROUP_IDS == [i \in 1..NumVpcs |-> 20 + i]
EndpointIds == 1..(NumVpcs * (MaxCycles + 2))

Min(S) == CHOOSE x \in S : \A y \in S : x <= y
Inc(n, max) == IF n < max THEN n + 1 ELSE max

SeqsUpTo(S, n) == UNION {[1..k -> S] : k \in 0..n}
ClusterConfigs == SeqsUpTo(Sizes \cup {NoSpec}, MaxRegions)

\* ------------------------------------------------- atlas_cluster_scaler.py
GetInstanceSizeDefault(config) ==
    LET withSpecs == {i \in 1..Len(config) : config[i] # NoSpec}
    IN  IF withSpecs = {} THEN SCALE_FROM ELSE config[Min(withSpecs)]

get_instance_size(config) ==
    LET withSpecs == {i \in 1..Len(config) : config[i] # NoSpec}
    IN  IF withSpecs = {} THEN None ELSE config[Min(withSpecs)]

SetInstanceSize(config, size) ==
    [i \in 1..Len(config) |-> IF config[i] # NoSpec THEN size ELSE NoSpec]

ToggleSwapped(current) ==
    IF current = SCALE_TO THEN SCALE_TO ELSE SCALE_FROM

ToggleAlwaysTo(current) == SCALE_TO

Toggle(current) ==
    IF current = SCALE_FROM THEN SCALE_TO ELSE SCALE_FROM

ClusterDoneWrongLabel(stateName) == stateName = "DONE"

ClusterDone(stateName) == stateName = "IDLE"

AfterPollNoSleep(done) == "fetch"

AfterPoll(done) == IF done THEN "fetch" ELSE "sleep"

GateAlwaysPassed == TRUE

GatePassed == ~WAIT_FILE_PATH \/ fileExists

ScWaitForLoadCompletion ==
    /\ prog = "scaler"
    /\ scPc = "gate"
    /\ \/ /\ ~GatePassed
          /\ UNCHANGED scPc
       \/ /\ GatePassed
          /\ scPc' = "fetch"
    /\ UNCHANGED <<scLastOp, prevOk, orphanPatch>>
    /\ UNCHANGED <<envVars, SCALE_FROM, SCALE_TO, scExc, current_size, new_size,
                   updConfig, patches, polls, lastPoll, clusterVars, cyclerVars, endpointVars>>

ScRaiseUncaught ==
    /\ scPc' = "terminated"
    /\ scExc' = "error"

ScRaise ==
    /\ scPc' = "except"
    /\ scExc' = "error"

MainFetch ==
    /\ prog = "scaler"
    /\ scPc = "fetch"
    /\ \/ /\ ScRaise
          /\ UNCHANGED <<current_size, new_size, patches>>
       \/ LET size == get_instance_size(rRegions)
          IN  /\ current_size' = size
              /\ IF size = None
                 THEN /\ scPc' = "none_sleep"
                      /\ UNCHANGED <<new_size, patches>>
                 ELSE /\ new_size' = Toggle(size)
                      /\ patches' = 0
                      /\ scPc' = "update_get"
              /\ UNCHANGED scExc
    /\ UNCHANGED <<scLastOp, prevOk, orphanPatch>>
    /\ UNCHANGED <<envVars, SCALE_FROM, SCALE_TO, updConfig, polls, lastPoll,
                   clusterVars, cyclerVars, endpointVars>>

MainNoneSleep ==
    /\ prog = "scaler"
    /\ scPc = "none_sleep"
    /\ scPc' = "fetch"
    /\ UNCHANGED <<scLastOp, prevOk, orphanPatch>>
    /\ UNCHANGED <<envVars, SCALE_FROM, SCALE_TO, scExc, current_size, new_size,
                   updConfig, patches, polls, lastPoll, clusterVars, cyclerVars, endpointVars>>

UpdateGet ==
    /\ prog = "scaler"
    /\ scPc = "update_get"
    /\ \/ /\ ScRaise
          /\ UNCHANGED updConfig
       \/ /\ updConfig' = SetInstanceSize(rRegions, new_size)
          /\ scPc' = "update_patch"
          /\ UNCHANGED scExc
    /\ UNCHANGED <<scLastOp, prevOk, orphanPatch>>
    /\ UNCHANGED <<envVars, SCALE_FROM, SCALE_TO, current_size, new_size,
                   patches, polls, lastPoll, clusterVars, cyclerVars, endpointVars>>

UpdatePatch ==
    /\ prog = "scaler"
    /\ scPc = "update_patch"
    /\ patches' = patches + 1
    /\ \/ /\ ScRaise
          /\ UNCHANGED <<polls, lastPoll, scLastOp, rPending, rRegions>>
       \/ /\ rPending' = <<updConfig>>
          /\ rRegions' = IF rReflects THEN updConfig ELSE rRegions
          /\ polls' = 0
          /\ lastPoll' = "none"
          /\ scLastOp' = "mutate"
          /\ scPc' = "wait"
          /\ UNCHANGED scExc
    /\ UNCHANGED <<envVars, SCALE_FROM, SCALE_TO, current_size, new_size,
                   updConfig, prevOk, orphanPatch, rState, rApplying, cyclerVars,
                   endpointVars>>

WaitResendsPatch ==
    /\ prog = "scaler"
    /\ scPc = "wait"
    /\ polls' = Inc(polls, MaxPolls)
    /\ \/ /\ lastPoll' = "error"
          /\ scLastOp' = "fetch"
          /\ orphanPatch' = TRUE
          /\ ScRaise
          /\ UNCHANGED <<prevOk, patches, rPending>>
       \/ /\ lastPoll' = rState
          /\ scLastOp' = AfterPoll(ClusterDone(rState))
          /\ IF ClusterDone(rState)
             THEN /\ scPc' = "cooldown"
                  /\ prevOk' = new_size
                  /\ orphanPatch' = FALSE
                  /\ UNCHANGED <<patches, rPending>>
             ELSE /\ scPc' = "wait"
                  /\ patches' = patches + 1
                  /\ rPending' = <<updConfig>>
                  /\ UNCHANGED <<prevOk, orphanPatch>>
          /\ UNCHANGED scExc
    /\ UNCHANGED <<envVars, SCALE_FROM, SCALE_TO, current_size, new_size,
                   updConfig, rRegions, rState, rApplying, cyclerVars,
                   endpointVars>>

WaitRetriesOnError ==
    /\ prog = "scaler"
    /\ scPc = "wait"
    /\ polls' = Inc(polls, MaxPolls)
    /\ \/ /\ lastPoll' = "error"
          /\ scLastOp' = "sleep"
          /\ UNCHANGED <<scPc, scExc, prevOk, orphanPatch>>
       \/ /\ lastPoll' = rState
          /\ scLastOp' = AfterPoll(ClusterDone(rState))
          /\ IF ClusterDone(rState)
             THEN /\ scPc' = "cooldown"
                  /\ prevOk' = new_size
                  /\ orphanPatch' = FALSE
             ELSE /\ scPc' = "wait"
                  /\ UNCHANGED <<prevOk, orphanPatch>>
          /\ UNCHANGED scExc
    /\ UNCHANGED <<envVars, SCALE_FROM, SCALE_TO, current_size, new_size,
                   updConfig, patches, clusterVars, cyclerVars, endpointVars>>

WaitGivesUp ==
    /\ prog = "scaler"
    /\ scPc = "wait"
    /\ polls' = Inc(polls, MaxPolls)
    /\ \/ /\ lastPoll' = "error"
          /\ scLastOp' = "fetch"
          /\ orphanPatch' = TRUE
          /\ ScRaise
          /\ UNCHANGED prevOk
       \/ /\ lastPoll' = rState
          /\ scLastOp' = AfterPoll(ClusterDone(rState) \/ polls >= 1)
          /\ IF ClusterDone(rState) \/ polls >= 1
             THEN /\ scPc' = "cooldown"
                  /\ prevOk' = new_size
                  /\ orphanPatch' = FALSE
             ELSE /\ scPc' = "wait"
                  /\ UNCHANGED <<prevOk, orphanPatch>>
          /\ UNCHANGED scExc
    /\ UNCHANGED <<envVars, SCALE_FROM, SCALE_TO, current_size, new_size,
                   updConfig, patches, clusterVars, cyclerVars, endpointVars>>

WaitPollError ==
    /\ prog = "scaler"
    /\ scPc = "wait"
    /\ polls' = Inc(polls, MaxPolls)
    /\ lastPoll' = "error"
    /\ scLastOp' = "fetch"
    /\ orphanPatch' = TRUE
    /\ ScRaise
    /\ UNCHANGED <<envVars, SCALE_FROM, SCALE_TO, current_size, new_size,
                   updConfig, patches, prevOk, clusterVars, cyclerVars,
                   endpointVars>>

WaitPollOk ==
    /\ prog = "scaler"
    /\ scPc = "wait"
    /\ polls' = Inc(polls, MaxPolls)
    /\ lastPoll' = rState
    /\ scLastOp' = AfterPoll(ClusterDone(rState))
    /\ IF ClusterDone(rState)
       THEN /\ scPc' = "cooldown"
            /\ prevOk' = new_size
            /\ orphanPatch' = FALSE
       ELSE /\ scPc' = "wait"
            /\ UNCHANGED <<prevOk, orphanPatch>>
    /\ UNCHANGED <<envVars, SCALE_FROM, SCALE_TO, scExc, current_size, new_size,
                   updConfig, patches, clusterVars, cyclerVars, endpointVars>>

wait_for_cluster_update ==
    \/ WaitPollOk
    \/ WaitPollError

MainCoolDown ==
    /\ prog = "scaler"
    /\ scPc = "cooldown"
    /\ scPc' = "fetch"
    /\ UNCHANGED <<scLastOp, prevOk, orphanPatch>>
    /\ UNCHANGED <<envVars, SCALE_FROM, SCALE_TO, scExc, current_size, new_size,
                   updConfig, patches, polls, lastPoll, clusterVars, cyclerVars, endpointVars>>

MainExcept ==
    /\ prog = "scaler"
    /\ scPc = "except"
    /\ scExc' = "none"
    /\ scPc' = "fetch"
    /\ UNCHANGED <<scLastOp, prevOk, orphanPatch>>
    /\ UNCHANGED <<envVars, SCALE_FROM, SCALE_TO, current_size, new_size,
                   updConfig, patches, polls, lastPoll, clusterVars, cyclerVars, endpointVars>>

\* ------------------------------------------------- Atlas cluster (remote)
ClusterStartUpdate ==
    /\ rPending # NoPatch
    /\ rState = "IDLE"
    /\ rState' = "UPDATING"
    /\ rApplying' = rPending
    /\ rPending' = NoPatch
    /\ UNCHANGED <<envVars, scalerVars, rRegions, cyclerVars, endpointVars>>

ClusterFinishUpdate ==
    /\ rState = "UPDATING"
    /\ rRegions' = IF rReflects THEN rRegions ELSE rApplying[1]
    /\ rState' = "IDLE"
    /\ rApplying' = NoPatch
    /\ UNCHANGED <<envVars, scalerVars, rPending, cyclerVars, endpointVars>>

\* ------------------------------------------------ atlas_endpoint_cycler.py
notCycler == <<envVars, scalerVars, clusterVars>>

get_endpoint(id) ==
    IF atlasEp[id] \in {"NONE", "REGISTERING"} THEN None ELSE atlasEp[id]

get_vpc_endpoint_id(i) ==
    IF awsEps[i] # <<>> THEN Head(awsEps[i]) ELSE NoId

DeletionDoneInverted(endpoint) == endpoint # None

DeletionDone(endpoint) == endpoint = None

CreationDoneOnAbsent(endpoint) == endpoint = None \/ endpoint = "AVAILABLE"

CreationDone(endpoint) == endpoint # None /\ endpoint = "AVAILABLE"

CreateArgsFirstSubnet(i) == <<VPC_IDS[i], SUBNET_IDS[1], SECURITY_GROUP_IDS[i]>>

CreateArgs(i) == <<VPC_IDS[i], SUBNET_IDS[i], SECURITY_GROUP_IDS[i]>>

CyRaise ==
    /\ cyExc' = cyPc
    /\ cyPc' = "terminated"

DeleteLoopInterleaved ==
    /\ cyIdx' = cyIdx
    /\ cyPc' = "rec_aws"

DeleteLoopNext ==
    IF cyIdx < NumVpcs
    THEN /\ cyIdx' = cyIdx + 1
         /\ cyPc' = "del_describe"
    ELSE /\ cyIdx' = cyIdx
         /\ cyPc' = "phase_sleep"

RecreateLoopNext ==
    IF cyIdx < NumVpcs
    THEN /\ cyIdx' = cyIdx + 1
         /\ cyPc' = "rec_aws"
    ELSE /\ cyIdx' = cyIdx
         /\ cyPc' = "cooldown"

CyWaitForLoadCompletion ==
    /\ prog = "cycler"
    /\ cyPc = "gate"
    /\ \/ /\ ~GatePassed
          /\ UNCHANGED cyPc
       \/ /\ GatePassed
          /\ cyPc' = "svc_id"
    /\ UNCHANGED <<cyLastOp, created>>
    /\ UNCHANGED <<notCycler, cyExc, cyIdx, vpce_id, cyDeletes, cyPosts, cyPolls,
                   cyLast, cycles, vpcStage, endpointVars>>

get_endpoint_service_id ==
    /\ prog = "cycler"
    /\ cyPc = "svc_id"
    /\ \/ CyRaise
       \/ /\ cyPc' = "svc_name"
          /\ UNCHANGED cyExc
    /\ UNCHANGED <<cyLastOp, created>>
    /\ UNCHANGED <<notCycler, cyIdx, vpce_id, cyDeletes, cyPosts, cyPolls,
                   cyLast, cycles, vpcStage, endpointVars>>

get_endpoint_service_name ==
    /\ prog = "cycler"
    /\ cyPc = "svc_name"
    /\ \/ CyRaise
       \/ /\ cyPc' = "del_describe"
          /\ UNCHANGED cyExc
    /\ UNCHANGED <<cyLastOp, created>>
    /\ UNCHANGED <<notCycler, cyIdx, vpce_id, cyDeletes, cyPosts, cyPolls,
                   cyLast, cycles, vpcStage, endpointVars>>

DeleteDescribe ==
    /\ prog = "cycler"
    /\ cyPc = "del_describe"
    /\ \/ /\ CyRaise
          /\ UNCHANGED <<cyIdx, vpce_id, cyDeletes, vpcStage>>
       \/ LET found == get_vpc_endpoint_id(cyIdx)
          IN  /\ vpce_id' = found
              /\ IF found # NoId
                 THEN /\ cyPc' = "del_atlas"
                      /\ cyDeletes' = 0
                      /\ UNCHANGED <<cyIdx, vpcStage>>
                 ELSE /\ DeleteLoopNext
                      /\ vpcStage' = [vpcStage EXCEPT ![cyIdx] = "torn_down"]
                      /\ UNCHANGED cyDeletes
              /\ UNCHANGED cyExc
    /\ UNCHANGED <<cyLastOp, created>>
    /\ UNCHANGED <<notCycler, cyPosts, cyPolls, cyLast, cycles, endpointVars>>

DeleteEndpointNoWait ==
    /\ prog = "cycler"
    /\ cyPc = "del_atlas"
    /\ cyDeletes' = cyDeletes + 1
    /\ \/ /\ CyRaise
          /\ UNCHANGED <<cyPolls, cyLast, cyLastOp, atlasEp>>
       \/ /\ get_endpoint(vpce_id) # None
          /\ atlasEp' = [atlasEp EXCEPT ![vpce_id] = "DELETING"]
          /\ cyPolls' = 0
          /\ cyLast' = "unpolled"
          /\ cyLastOp' = "mutate"
          /\ cyPc' = "del_aws"
          /\ UNCHANGED cyExc
    /\ UNCHANGED <<notCycler, cyIdx, vpce_id, cyPosts, cycles, vpcStage, created,
                   awsEps, nextId>>

delete_endpoint ==
    /\ prog = "cycler"
    /\ cyPc = "del_atlas"
    /\ cyDeletes' = cyDeletes + 1
    /\ \/ /\ CyRaise
          /\ UNCHANGED <<cyPolls, cyLast, cyLastOp, atlasEp>>
       \/ /\ get_endpoint(vpce_id) # None
          /\ atlasEp' = [atlasEp EXCEPT ![vpce_id] = "DELETING"]
          /\ cyPolls' = 0
          /\ cyLast' = "unpolled"
          /\ cyLastOp' = "mutate"
          /\ cyPc' = "del_wait"
          /\ UNCHANGED cyExc
    /\ UNCHANGED <<notCycler, cyIdx, vpce_id, cyPosts, cycles, vpcStage, created,
                   awsEps, nextId>>

DeleteWait ==
    /\ prog = "cycler"
    /\ cyPc = "del_wait"
    /\ cyPolls' = Inc(cyPolls, MaxPolls)
    /\ \/ /\ cyLast' = "error"
          /\ cyLastOp' = "fetch"
          /\ CyRaise
          /\ UNCHANGED vpcStage
       \/ LET endpoint == get_endpoint(vpce_id)
          IN  /\ cyLast' = endpoint
              /\ cyLastOp' = AfterPoll(DeletionDone(endpoint))
              /\ IF DeletionDone(endpoint)
                 THEN /\ cyPc' = "del_aws"
                      /\ vpcStage' = [vpcStage EXCEPT ![cyIdx] = "absent"]
                 ELSE /\ cyPc' = "del_wait"
                      /\ UNCHANGED vpcStage
              /\ UNCHANGED cyExc
    /\ UNCHANGED <<notCycler, cyIdx, vpce_id, cyDeletes, cyPosts, cycles, created,
                   endpointVars>>

delete_aws_vpc_endpoint ==
    /\ prog = "cycler"
    /\ cyPc = "del_aws"
    /\ \/ /\ CyRaise
          /\ UNCHANGED <<cyIdx, vpcStage, awsEps>>
       \/ /\ awsEps' = [v \in 1..NumVpcs |->
                          SelectSeq(awsEps[v], LAMBDA e : e # vpce_id)]
          /\ vpcStage' = [vpcStage EXCEPT ![cyIdx] = "torn_down"]
          /\ DeleteLoopNext
          /\ UNCHANGED cyExc
    /\ UNCHANGED <<cyLastOp, created>>
    /\ UNCHANGED <<notCycler, vpce_id, cyDeletes, cyPosts, cyPolls, cyLast, cycles,
                   atlasEp, nextId>>

PhaseSleep ==
    /\ prog = "cycler"
    /\ cyPc = "phase_sleep"
    /\ cyIdx' = 1
    /\ cyPc' = "rec_aws"
    /\ UNCHANGED <<cyLastOp, created>>
    /\ UNCHANGED <<notCycler, cyExc, vpce_id, cyDeletes, cyPosts, cyPolls, cyLast,
                   cycles, vpcStage, endpointVars>>

create_aws_vpc_endpoint ==
    /\ prog = "cycler"
    /\ cyPc = "rec_aws"
    /\ \/ /\ CyRaise
          /\ UNCHANGED <<vpce_id, cyPosts, created, awsEps, nextId>>
       \/ /\ vpce_id' = nextId
          /\ nextId' = nextId + 1
          /\ awsEps' = [awsEps EXCEPT ![cyIdx] = Append(@, nextId)]
          /\ created' = Append(created, CreateArgs(cyIdx))
          /\ cyPosts' = 0
          /\ cyPc' = "rec_atlas"
          /\ UNCHANGED cyExc
    /\ UNCHANGED <<notCycler, cyIdx, cyDeletes, cyPolls, cyLast, cycles, vpcStage,
                   cyLastOp, atlasEp>>

CreatePrivateEndpointNoWait ==
    /\ prog = "cycler"
    /\ cyPc = "rec_atlas"
    /\ cyPosts' = cyPosts + 1
    /\ \/ /\ CyRaise
          /\ UNCHANGED <<cyIdx, cyPolls, cyLast, cyLastOp, atlasEp>>
       \/ /\ atlasEp' = [atlasEp EXCEPT ![vpce_id] = "REGISTERING"]
          /\ cyPolls' = 0
          /\ cyLast' = "unpolled"
          /\ cyLastOp' = "mutate"
          /\ RecreateLoopNext
          /\ UNCHANGED cyExc
    /\ UNCHANGED <<notCycler, vpce_id, cyDeletes, cycles, vpcStage, created,
                   awsEps, nextId>>

create_private_endpoint ==
    /\ prog = "cycler"
    /\ cyPc = "rec_atlas"
    /\ cyPosts' = cyPosts + 1
    /\ \/ /\ CyRaise
          /\ UNCHANGED <<cyPolls, cyLast, cyLastOp, atlasEp>>
       \/ /\ atlasEp' = [atlasEp EXCEPT ![vpce_id] = "REGISTERING"]
          /\ cyPolls' = 0
          /\ cyLast' = "unpolled"
          /\ cyLastOp' = "mutate"
          /\ cyPc' = "rec_wait"
          /\ UNCHANGED cyExc
    /\ UNCHANGED <<notCycler, cyIdx, vpce_id, cyDeletes, cycles, vpcStage, created,
                   awsEps, nextId>>

RecreateWait ==
    /\ prog = "cycler"
    /\ cyPc = "rec_wait"
    /\ cyPolls' = Inc(cyPolls, MaxPolls)
    /\ \/ /\ cyLast' = "error"
          /\ cyLastOp' = "fetch"
          /\ CyRaise
          /\ UNCHANGED <<cyIdx, vpcStage>>
       \/ LET endpoint == get_endpoint(vpce_id)
          IN  /\ cyLast' = endpoint
              /\ cyLastOp' = AfterPoll(CreationDone(endpoint))
              /\ IF CreationDone(endpoint)
                 THEN /\ RecreateLoopNext
                      /\ vpcStage' = [vpcStage EXCEPT ![cyIdx] = "available"]
                 ELSE /\ cyPc' = "rec_wait"
                      /\ UNCHANGED <<cyIdx, vpcStage>>
              /\ UNCHANGED cyExc
    /\ UNCHANGED <<notCycler, vpce_id, cyDeletes, cyPosts, cycles, created,
                   endpointVars>>

CyCoolDown ==
    /\ prog = "cycler"
    /\ cyPc = "cooldown"
    /\ cycles < MaxCycles
    /\ cycles' = cycles + 1
    /\ cyIdx' = 1
    /\ vpcStage' = [i \in 1..NumVpcs |-> "todo"]
    /\ created' = <<>>
    /\ cyPc' = "del_describe"
    /\ UNCHANGED <<notCycler, cyExc, vpce_id, cyDeletes, cyPosts, cyPolls, cyLast,
                   cyLastOp, endpointVars>>

\* ------------------------------------- Atlas private endpoints (remote)
AtlasEndpointRegistered ==
    \E id \in EndpointIds :
        /\ atlasEp[id] = "REGISTERING"
        /\ atlasEp' = [atlasEp EXCEPT ![id] = "PENDING"]
        /\ UNCHANGED <<notCycler, cyclerVars, awsEps, nextId>>

AtlasEndpointAvailable ==
    \E id \in EndpointIds :
        /\ atlasEp[id] = "PENDING"
        /\ atlasEp' = [atlasEp EXCEPT ![id] = "AVAILABLE"]
        /\ UNCHANGED <<notCycler, cyclerVars, awsEps, nextId>>

AtlasEndpointDeleted ==
    \E id \in EndpointIds :
        /\ atlasEp[id] = "DELETING"
        /\ atlasEp' = [atlasEp EXCEPT ![id] = "NONE"]
        /\ UNCHANGED <<notCycler, cyclerVars, awsEps, nextId>>

\* ------------------------------------------------------------ marker file
FileAppears ==
    /\ WAIT_FILE_PATH
    /\ ~fileExists
    /\ fileExists' = TRUE
    /\ UNCHANGED <<prog, WAIT_FILE_PATH, rReflects, scalerVars, clusterVars,
                   cyclerVars, endpointVars>>

FileDisappears ==
    /\ WAIT_FILE_PATH
    /\ fileExists
    /\ fileExists' = FALSE
    /\ UNCHANGED <<prog, WAIT_FILE_PATH, rReflects, scalerVars, clusterVars,
                   cyclerVars, endpointVars>>

\* ---------------------------------------------------------- specification
InitEnv ==
    /\ prog \in {"scaler", "cycler"}
    /\ WAIT_FILE_PATH \in BOOLEAN
    /\ fileExists \in BOOLEAN
    /\ ~WAIT_FILE_PATH => ~fileExists
    /\ rReflects \in (IF prog = "scaler" THEN BOOLEAN ELSE {FALSE})

InitScaler ==
    /\ scPc = "gate"
    /\ scExc = "none"
    /\ current_size = None
    /\ new_size = None
    /\ updConfig = <<>>
    /\ patches = 0
    /\ polls = 0
    /\ lastPoll = "none"
    /\ scLastOp = "none"
    /\ prevOk = None
    /\ orphanPatch = FALSE
    /\ IF prog = "scaler"
       THEN /\ SCALE_FROM \in Sizes
            /\ SCALE_TO \in Sizes
            /\ rRegions \in ClusterConfigs
       ELSE /\ SCALE_FROM = "M10"
            /\ SCALE_TO = "M20"
            /\ rRegions = <<>>
    /\ rState = "IDLE"
    /\ rPending = NoPatch
    /\ rApplying = NoPatch

InitCycler ==
    /\ cyPc = "gate"
    /\ cyExc = "none"
    /\ cyIdx = 1
    /\ vpce_id = NoId
    /\ cyDeletes = 0
    /\ cyPosts = 0
    /\ cyPolls = 0
    /\ cyLast = "unpolled"
    /\ cycles = 0
    /\ vpcStage = [i \in 1..NumVpcs |-> "todo"]
    /\ cyLastOp = "none"
    /\ created = <<>>
    /\ nextId = NumVpcs + 1
    /\ IF prog = "cycler"
       THEN /\ awsEps \in [1..NumVpcs -> {<<>>} \cup {<<i>> : i \in 1..NumVpcs}]
            /\ \A v \in 1..NumVpcs : awsEps[v] \in {<<>>, <<v>>}
            /\ atlasEp \in [EndpointIds -> {"NONE", "AVAILABLE"}]
            /\ \A id \in EndpointIds :
                   atlasEp[id] = "AVAILABLE" => (id <= NumVpcs /\ awsEps[id] = <<id>>)
       ELSE /\ awsEps = [v \in 1..NumVpcs |-> <<>>]
            /\ atlasEp = [id \in EndpointIds |-> "NONE"]

Init == InitEnv /\ InitScaler /\ InitCycler

CyclerNext ==
    \/ CyWaitForLoadCompletion
    \/ get_endpoint_service_id
    \/ get_endpoint_service_name
    \/ DeleteDescribe
    \/ delete_endpoint
    \/ DeleteWait
    \/ delete_aws_vpc_endpoint
    \/ PhaseSleep
    \/ create_aws_vpc_endpoint
    \/ create_private_endpoint
    \/ RecreateWait
    \/ CyCoolDown
    \/ AtlasEndpointRegistered
    \/ AtlasEndpointAvailable
    \/ AtlasEndpointDeleted

ScalerNext ==
    \/ ScWaitForLoadCompletion
    \/ MainFetch
    \/ MainNoneSleep
    \/ UpdateGet
    \/ UpdatePatch
    \/ wait_for_cluster_update
    \/ MainCoolDown
    \/ MainExcept
    \/ ClusterStartUpdate
    \/ ClusterFinishUpdate

Next ==
    \/ ScalerNext
    \/ CyclerNext
    \/ FileAppears
    \/ FileDisappears

Spec == Init /\ [][Next]_vars

\* The scaler alone, without a marker file, with the scheduling the liveness
\* claims rest on: the process keeps executing its wait loop (no fairness is
\* put on a fetch failing), and a cluster that is applying an update finishes it.
LiveInit == Init /\ prog = "scaler" /\ ~WAIT_FILE_PATH

LiveSpec ==
    /\ LiveInit
    /\ [][ScalerNext]_vars
    /\ WF_vars(WaitPollOk)
    /\ WF_vars(ClusterFinishUpdate)

\* ================================================================ claims
DeleteSteps == {"del_describe", "del_atlas", "del_wait", "del_aws"}
RecreateSteps == {"rec_aws", "rec_atlas", "rec_wait"}
CycleSteps == DeleteSteps \cup RecreateSteps \cup {"phase_sleep", "cooldown"}
WaitSteps == {"del_wait", "rec_wait"}
ScIterationSteps == {"update_get", "update_patch", "wait", "cooldown"}

\* C1: toggle policy.  Once main() has computed new_size from a current size
\* that is SCALE_FROM or SCALE_TO, new_size is the other member of the pair.
C1_Toggle ==
    (scPc \in ScIterationSteps /\ current_size \in {SCALE_FROM, SCALE_TO}) =>
        /\ current_size = SCALE_FROM => new_size = SCALE_TO
        /\ current_size = SCALE_TO => new_size = SCALE_FROM

C1_Witness ==
    /\ scPc = "update_get"
    /\ SCALE_FROM # SCALE_TO
    /\ current_size = SCALE_TO
    /\ new_size = SCALE_FROM

\* C2: one mutating call per transition.  While wait_for_cluster_update runs
\* and when it has returned, exactly one PATCH was sent since the target was
\* computed; while an endpoint's deletion wait runs and when it has ended,
\* exactly one Atlas DELETE was sent for it; while its AVAILABLE wait runs and
\* when the last one has ended, exactly one Atlas POST was sent for it.
C2_MutateOnce ==
    /\ scPc \in {"wait", "cooldown"} => patches = 1
    /\ cyPc \in {"del_wait", "del_aws"} => cyDeletes = 1
    /\ cyPc \in {"rec_wait", "cooldown"} => cyPosts = 1

C2_Witness ==
    /\ scPc = "cooldown"
    /\ polls >= 2
    /\ lastPoll = "IDLE"
    /\ patches = 1

\* C3 (as stated): whenever a step of the identifier at position cyIdx runs,
\* every earlier identifier has completed its whole delete-wait-recreate-wait
\* sequence (its recreated endpoint was observed AVAILABLE).
C3_Original ==
    cyPc \in DeleteSteps \cup RecreateSteps =>
        \A i \in 1..(cyIdx - 1) : vpcStage[i] = "available"

\* C3 (amended): cycling is sequential within each of two phases.  In the
\* delete phase every earlier identifier is torn down before the next lookup;
\* the recreate phase starts only when every identifier is torn down, and in it
\* every earlier identifier was observed AVAILABLE before the next creation.
C3_PhasedSequential ==
    /\ cyPc \in DeleteSteps =>
          \A i \in 1..(cyIdx - 1) : vpcStage[i] = "torn_down"
    /\ cyPc = "phase_sleep" =>
          \A i \in 1..NumVpcs : vpcStage[i] = "torn_down"
    /\ cyPc \in RecreateSteps =>
          /\ \A i \in 1..(cyIdx - 1) : vpcStage[i] = "available"
          /\ \A i \in cyIdx..NumVpcs : vpcStage[i] = "torn_down"

C3_Witness ==
    /\ cyPc = "rec_wait"
    /\ cyIdx = 2
    /\ vpcStage[1] = "available"
    /\ vpcStage[2] = "torn_down"
    /\ cycles = 1

\* C4 (as stated): an error raised by a remote call inside the cycling loop
\* never ends the process (the loop sleeps and restarts from the top).
C4_Original ==
    cyExc \in CycleSteps => cyPc # "terminated"

\* C5: outer retry loop of the scaler.  A raised exception always lands in the
\* handler; the handler's sleep, the cool-down and the cannot-determine sleep
\* are each followed by the fetch that opens a new iteration; the process
\* never terminates.
C5_RetryLoop ==
    /\ [][(scExc = "none" /\ scExc' # "none") => scPc' = "except"]_vars
    /\ [][(scPc \in {"except", "cooldown", "none_sleep"} /\ scPc' # scPc)
             => scPc' = "fetch"]_vars
    /\ [](scPc # "terminated")

C5_Witness ==
    /\ scPc = "except"
    /\ scExc = "error"
    /\ lastPoll = "error"
    /\ patches = 1

\* C6 (as stated): in an iteration whose observed size is neither SCALE_FROM
\* nor SCALE_TO no PATCH is sent.
C6_Original ==
    (current_size # None /\ current_size \notin {SCALE_FROM, SCALE_TO}) =>
        patches = 0

\* C7 (as stated): when wait_for_cluster_update has returned, the cluster has
\* applied the requested change: it reports IDLE and its size is new_size.
\* Stated for the regular toggle (two different sizes, the current size one of
\* them), so that it does not rest on the unexpected-size case of C6.
C7_Original ==
    (/\ scPc = "cooldown"
     /\ SCALE_FROM # SCALE_TO
     /\ current_size \in {SCALE_FROM, SCALE_TO}) =>
        /\ rState = "IDLE"
        /\ get_instance_size(rRegions) = new_size

\* C8: a failed fetch ends its wait loop at once.  The step in which a wait
\* loop's fetch fails leaves the loop with the exception in flight, and no
\* wait loop is ever running after one of its fetches failed.
C8_AbortOnError ==
    /\ [][(scPc = "wait" /\ lastPoll' = "error")
             => (scPc' # "wait" /\ scExc' = "error")]_vars
    /\ [][(cyPc \in WaitSteps /\ cyLast' = "error")
             => (cyPc' \notin WaitSteps /\ cyExc' = cyPc)]_vars
    /\ [](scPc = "wait" => lastPoll # "error")
    /\ [](cyPc \in WaitSteps => cyLast # "error")

C8_Witness ==
    /\ scPc = "except"
    /\ lastPoll = "error"
    /\ polls >= 2

\* C9: in the deletion wait the poll that observes the endpoint absent ends
\* the wait (the AWS delete is next), and the wait never runs on after it.
C9_NotFoundEndsDeletion ==
    /\ [][(cyPc = "del_wait" /\ cyLast' = None)
             => (cyPc' = "del_aws" /\ cyExc' = "none")]_vars
    /\ [](cyPc = "del_wait" => cyLast # None)

C9_Witness ==
    /\ cyPc = "del_aws"
    /\ cyLast = None
    /\ cyPolls >= 2

\* C10: in the AVAILABLE wait a poll that observes the endpoint absent keeps
\* the wait running without an error, and the wait ends without an error only
\* on a poll that observed connectionStatus AVAILABLE.
C10_NotFoundKeepsPolling ==
    /\ [][(cyPc = "rec_wait" /\ cyLast' = None)
             => (cyPc' = "rec_wait" /\ cyExc' = "none")]_vars
    /\ [][(cyPc = "rec_wait" /\ cyPc' # "rec_wait" /\ cyExc' = "none")
             => cyLast' = "AVAILABLE"]_vars

C10_Witness ==
    /\ cyPc = "rec_wait"
    /\ cyLast = None
    /\ cyPolls >= 2

\* C11 (as stated): every fetch of a wait loop is preceded by a sleep: whenever
\* a wait loop is about to fetch, the latest operation was a sleep (also for
\* the first fetch after the mutating call).
C11_Original ==
    /\ scPc = "wait" => scLastOp = "sleep"
    /\ cyPc \in WaitSteps => cyLastOp = "sleep"

\* C11 (amended): a wait loop fetches, tests, and sleeps only when the test
\* failed.  Its first fetch follows the mutating call with no sleep between,
\* every later fetch follows a sleep, and the loop ends on a fetch.
C11_FetchTestSleep ==
    /\ scPc = "wait" => scLastOp = (IF polls = 0 THEN "mutate" ELSE "sleep")
    /\ scPc = "cooldown" => scLastOp = "fetch"
    /\ cyPc \in WaitSteps =>
          cyLastOp = (IF cyPolls = 0 THEN "mutate" ELSE "sleep")
    /\ cyPc = "del_aws" => cyLastOp = "fetch"

C11_Witness ==
    /\ scPc = "wait"
    /\ polls >= 2
    /\ scLastOp = "sleep"
    /\ lastPoll = "UPDATING"

\* C12: a wait loop returns at the first poll that satisfies its predicate.
\* The poll that observes IDLE (scaler) or AVAILABLE (cycler) ends the loop in
\* the same step, no wait loop is ever running after such a poll, and when it
\* is the first poll after the mutating call exactly one fetch was made.
C12_FirstSatisfiedPollReturns ==
    /\ [][(scPc = "wait" /\ lastPoll' = "IDLE")
             => (scPc' = "cooldown" /\ (polls = 0 => polls' = 1))]_vars
    /\ [][(cyPc = "rec_wait" /\ cyLast' = "AVAILABLE")
             => (cyPc' \in {"rec_aws", "cooldown"}
                 /\ (cyPolls = 0 => cyPolls' = 1))]_vars
    /\ [](scPc = "wait" => lastPoll # "IDLE")
    /\ [](cyPc = "rec_wait" => cyLast # "AVAILABLE")

C12_Witness ==
    /\ scPc = "cooldown"
    /\ polls = 1
    /\ lastPoll = "IDLE"
    /\ patches = 1
    /\ get_instance_size(rRegions) = new_size

\* C13: wait_for_cluster_update has no retry bound and ends exactly on IDLE.
\* A poll that observes a stateName other than IDLE keeps the loop polling,
\* however many came before; the loop has returned only when its latest poll
\* observed IDLE; and under LiveSpec's scheduling a running loop eventually
\* returns or is left by a failed fetch.
C13_PollsUntilIdle ==
    /\ [][(scPc = "wait" /\ lastPoll' = "UPDATING") => scPc' = "wait"]_vars
    /\ [](scPc = "cooldown" => lastPoll = "IDLE")
    /\ (scPc = "wait") ~> (scPc = "cooldown" \/ scExc = "error")

C13_Witness ==
    /\ scPc = "wait"
    /\ polls = MaxPolls
    /\ lastPoll = "UPDATING"
    /\ rState = "UPDATING"

SeqRange(q) == {q[k] : k \in 1..Len(q)}

\* C14: teardown order of one endpoint.  The AWS delete is about to be issued
\* only for an endpoint that got one Atlas DELETE and whose latest poll, made
\* after that DELETE, reported it absent; an AWS endpoint disappears only by
\* that call and it is the endpoint that was polled; and a VPC whose describe
\* finds no endpoint gets neither an Atlas DELETE nor an AWS delete.
C14_TeardownOrder ==
    /\ [](cyPc = "del_aws" =>
            /\ vpce_id # NoId
            /\ cyDeletes = 1
            /\ cyPolls >= 1
            /\ cyLast = None)
    /\ [][\A v \in 1..NumVpcs : \A id \in SeqRange(awsEps[v]) :
             id \notin SeqRange(awsEps'[v]) =>
                (cyPc = "del_aws" /\ id = vpce_id /\ cyLast = None)]_vars
    /\ [][(cyPc = "del_describe" /\ awsEps[cyIdx] = <<>>) =>
             /\ cyPc' \notin {"del_atlas", "del_wait", "del_aws"}
             /\ cyDeletes' = cyDeletes
             /\ awsEps' = awsEps
             /\ atlasEp' = atlasEp]_vars

C14_Witness ==
    /\ cyPc = "phase_sleep"
    /\ cyDeletes = 1
    /\ cyLast = None
    /\ vpcStage[1] = "torn_down"
    /\ \A v \in 1..NumVpcs : awsEps[v] = <<>>
    /\ cyPolls >= 2

Last(q) == q[Len(q)]

\* C15: recreate order of one VPC.  The Atlas POST is about to be issued only
\* after the AWS create, for the id that create returned and that Atlas does
\* not know yet; the POST registers exactly that id; while polling, one POST
\* has been made; and the loop leaves this VPC (for the next VPC or for the
\* cooldown) only by a poll that reports the endpoint AVAILABLE.
C15_RecreateOrder ==
    /\ [](cyPc = "rec_atlas" =>
            /\ awsEps[cyIdx] # <<>>
            /\ vpce_id = Last(awsEps[cyIdx])
            /\ cyPosts = 0
            /\ atlasEp[vpce_id] = "NONE")
    /\ [](cyPc = "rec_wait" =>
            /\ vpce_id = Last(awsEps[cyIdx])
            /\ cyPosts = 1
            /\ atlasEp[vpce_id] # "NONE")
    /\ [][(cyPc = "rec_atlas" /\ atlasEp' # atlasEp) =>
             atlasEp' = [atlasEp EXCEPT ![Last(awsEps[cyIdx])] = "REGISTERING"]]_vars
    /\ [][(cyPc = "rec_aws" /\ cyPc' # "rec_aws") =>
             cyPc' \in {"rec_atlas", "terminated"}]_vars
    /\ [][(cyPc \in {"rec_atlas", "rec_wait"} /\ cyPc' \in {"rec_aws", "cooldown"}) =>
             /\ cyPc = "rec_wait"
             /\ atlasEp[vpce_id] = "AVAILABLE"
             /\ cyLast' = "AVAILABLE"]_vars

C15_Witness ==
    /\ cyPc = "rec_aws"
    /\ cyIdx = 2
    /\ vpcStage[1] = "available"
    /\ cyPosts = 1
    /\ cyPolls >= 2
    /\ cyLast = "AVAILABLE"
    /\ atlasEp[Last(awsEps[1])] = "AVAILABLE"

\* C16: startup gate.  While a script is still at its gate it has made no
\* remote call; with WAIT_FILE_PATH configured it leaves the gate only in a
\* step that sees the marker file; once past the gate it never returns to it,
\* and a file that disappears afterwards does not stop the next remote call;
\* with WAIT_FILE_PATH not configured the first step goes on to the first
\* remote call.
C16_StartupGate ==
    /\ [](scPc = "gate" =>
            /\ current_size = None /\ patches = 0 /\ polls = 0
            /\ scLastOp = "none" /\ scExc = "none"
            /\ rPending = NoPatch /\ rState = "IDLE")
    /\ [](cyPc = "gate" =>
            /\ vpce_id = NoId /\ cyDeletes = 0 /\ cyPosts = 0 /\ cyPolls = 0
            /\ cyLastOp = "none" /\ cyExc = "none" /\ created = <<>>
            /\ nextId = NumVpcs + 1)
    /\ [][(scPc = "gate" /\ scPc' # "gate") =>
             (scPc' = "fetch" /\ (WAIT_FILE_PATH => fileExists))]_vars
    /\ [][(cyPc = "gate" /\ cyPc' # "gate") =>
             (cyPc' = "svc_id" /\ (WAIT_FILE_PATH => fileExists))]_vars
    /\ [][(scPc # "gate" => scPc' # "gate") /\ (cyPc # "gate" => cyPc' # "gate")]_vars
    /\ []((prog = "scaler" /\ scPc = "fetch") => ENABLED MainFetch)
    /\ []((prog = "cycler" /\ cyPc = "del_describe") => ENABLED DeleteDescribe)
    /\ []((prog = "scaler" /\ scPc = "gate" /\ ~WAIT_FILE_PATH) =>
             ENABLED (ScWaitForLoadCompletion /\ scPc' = "fetch"))
    /\ []((prog = "cycler" /\ cyPc = "gate" /\ ~WAIT_FILE_PATH) =>
             ENABLED (CyWaitForLoadCompletion /\ cyPc' = "svc_id"))

C16_Witness ==
    /\ prog = "scaler"
    /\ scPc = "fetch"
    /\ patches = 1
    /\ lastPoll = "IDLE"
    /\ WAIT_FILE_PATH
    /\ ~fileExists

AlternationPremise == SCALE_FROM # SCALE_TO /\ rReflects

SuccessStep == scPc = "wait" /\ scPc' = "cooldown"

C18_Original ==
    [][(scPc = "update_patch" /\ orphanPatch /\ patches' # patches) =>
          rState = "IDLE"]_vars

\* C19: two phases of one cycle.  A create_aws_vpc_endpoint call is made only
\* when every VPC has been through the delete phase and no VPC from the current
\* one onwards has an AWS endpoint left, and before the first create no endpoint
\* is known to Atlas either; the k-th create of a cycle is for the k-th VPC
\* with the k-th subnet and the k-th security group; a cycle that reaches its
\* cooldown has made one create per VPC, found or not.
C19_DeleteAllThenCreateEach ==
    /\ [](cyPc = "phase_sleep" =>
            /\ \A v \in 1..NumVpcs : awsEps[v] = <<>>
            /\ \A id \in EndpointIds : atlasEp[id] = "NONE"
            /\ created = <<>>)
    /\ [](created # <<>> =>
            \A v \in 1..NumVpcs : vpcStage[v] \in {"torn_down", "available"})
    /\ [][(created' # created /\ created' # <<>>) =>
             /\ cyPc = "rec_aws"
             /\ cyIdx = Len(created) + 1
             /\ \A v \in cyIdx..NumVpcs : awsEps[v] = <<>>
             /\ Len(awsEps'[cyIdx]) = 1
             /\ created' = Append(created, <<VPC_IDS[cyIdx], SUBNET_IDS[cyIdx],
                                             SECURITY_GROUP_IDS[cyIdx]>>)]_vars
    /\ [][(\E v \in 1..NumVpcs : Len(awsEps'[v]) > Len(awsEps[v])) =>
             created' # created]_vars
    /\ [](cyPc = "cooldown" =>
            /\ Len(created) = NumVpcs
            /\ \A v \in 1..NumVpcs : Len(awsEps[v]) = 1)

C19_Witness ==
    /\ cyPc = "rec_wait"
    /\ cyIdx = 2
    /\ Len(created) = 2
    /\ created[2] = <<VPC_IDS[2], SUBNET_IDS[2], SECURITY_GROUP_IDS[2]>>
    /\ vpcStage[1] = "available"
    /\ vpcStage[2] = "torn_down"
    /\ cycles = 0
    /\ cyDeletes = 0

NoElectableSpecs == \A i \in 1..Len(rRegions) : rRegions[i] = NoSpec

\* C20: undetermined size.  A fetch that succeeds on a cluster none of whose
\* regionConfigs has electableSpecs leads to the sleep of the None branch and
\* to nothing else; in that sleep the size is None and the iteration has
\* issued no PATCH and made no poll; the sleep changes nothing on the cluster
\* and is followed by the fetch of a new iteration.
C20_NoneSkipsUpdate ==
    /\ [][(scPc = "fetch" /\ NoElectableSpecs /\ scPc' \notin {"fetch", "except"}) =>
             /\ scPc' = "none_sleep"
             /\ current_size' = None
             /\ patches' = patches
             /\ polls' = polls
             /\ rPending' = rPending]_vars
    /\ [](scPc = "none_sleep" =>
            /\ NoElectableSpecs
            /\ current_size = None
            /\ patches = 0
            /\ polls = 0
            /\ rPending = NoPatch /\ rState = "IDLE")
    /\ [][(scPc = "none_sleep" /\ scPc' # "none_sleep") =>
             /\ scPc' = "fetch"
             /\ patches' = patches
             /\ polls' = polls
             /\ rPending' = rPending]_vars
    /\ [](scPc \in {"update_get", "update_patch", "wait"} => ~NoElectableSpecs)

C20_Witness ==
    /\ scPc = "none_sleep"
    /\ Len(rRegions) = MaxRegions
    /\ NoElectableSpecs
    /\ current_size = None

====
